---- MODULE Spec2Model ----
(***************************************************************************)
(* Model of the GreenGalaxy room server (server/src/rooms/MyRoom.ts and    *)
(* server/src/rooms/schema/MyRoomState.ts): the replicated room state, the *)
(* join / leave / reconnection lifecycle and the message handlers; and of   *)
(* the client (the App component): the environment loads and the collision *)
(* index they build, the creation and removal of rigs, the animation state *)
(* of a rig and the per-frame movement of the local entity.  A call that   *)
(* awaits is one action up to the await and one action from it on.         *)
(*                                                                         *)
(* Numbers.  A JavaScript number is a record [k, v]: k is "finite", "NaN", *)
(* "+Infinity" or "-Infinity" and v the value of a finite number counted   *)
(* in thousandths (1 unit of the source = 1000), so that Math.PI has the   *)
(* representable value 3142.  Values of other JavaScript types carry       *)
(* k = "undefined" or k = "string".                                        *)
(***************************************************************************)
EXTENDS Integers, Sequences, FiniteSets, TLC

VARIABLES
    players,        \* MyRoomState.players : sessionId -> PlayerState
    envKey,         \* MyRoomState.envKey
    clients,        \* Room.clients : the sessions with a live connection
    reconnections,  \* sessions whose onLeave awaits allowReconnection
    broadcasts,     \* the messages the handler that ran last broadcast
    envAssigned,    \* history: onJoin has assigned envKey at least once
    last,           \* history: the handler that ran last, [op, sid, arg]
    colliderBoxes,  \* client: colliderBoxesRef.current
    pendingLoads,   \* client: the loadEnvironment calls at an await, [key, stage]
    envMounted,     \* client: envMountedRef.current.key, "none" for null
    colliderObj,    \* client: colliderObjRef.current is an object
    requested,      \* client history: the key of the last loadEnvironment call
    scene,          \* client: the nodes attached to threeRef.current.scene
    three,          \* client: threeRef.current is a context
    rigs,           \* client: threeRef.current.rigs : id -> PlayerRig
    pendingRigs,    \* client: id -> the ensureRig calls at their await
    present,        \* client history: the ids of the players map as last notified
    echoes,         \* the server's rebroadcasts of our own emote, in flight
    inFrame,        \* client: animate has updated the mixers, not yet the local rig
    sent,           \* client: the messages the call that ran last sent
    did             \* client history: the call that ran last, [op, arg, res]

serverVars ==
    <<players, envKey, clients, reconnections, broadcasts, envAssigned, last>>

loadVars == <<colliderBoxes, pendingLoads, envMounted, colliderObj, requested>>

rigVars == <<rigs, pendingRigs, present>>

clientVars == <<loadVars, rigVars, scene, three, echoes, inFrame, sent, did>>

vars == <<serverVars, clientVars>>

(***************************************************************************)
(* Bounds of the model                                                     *)
(***************************************************************************)
MaxSessions == 2
MaxMeshes == 2
MaxLoads == 2
MaxWalk == 2
MaxCalls == 2
MaxEchoes == 1
MaxNodes == 3

Sessions == 1 .. MaxSessions

(***************************************************************************)
(* Program constants                                                       *)
(***************************************************************************)
maxClients == 32
ClampLo == -50000
ClampHi == 50000
SpawnX == 0
SpawnY == 1000
SpawnZ == -2000
MathPI == 3142
NameMax == 32
ChatMax == 500
PLAYER_GROUND_Y == 500
ProbeOffset == 1000
Radius == 450

DefaultEnv == "office"
KnownEnvs == {"office", "whitespace"}

(***************************************************************************)
(* JavaScript values                                                       *)
(***************************************************************************)
Fin(n) == [k |-> "finite", v |-> n]
NaN == [k |-> "NaN", v |-> 0]
PosInf == [k |-> "+Infinity", v |-> 0]
NegInf == [k |-> "-Infinity", v |-> 0]
Undef == [k |-> "undefined", v |-> 0]
NotNum == [k |-> "string", v |-> 0]

\* typeof a === "number"
TypeofNumber(a) == a.k \in {"finite", "NaN", "+Infinity", "-Infinity"}

\* a <= b on numbers other than NaN
NumLeq(a, b) ==
    \/ a.k = "-Infinity"
    \/ b.k = "+Infinity"
    \/ a.k = "finite" /\ b.k = "finite" /\ a.v <= b.v

MathMin(a, b) ==
    IF a.k = "NaN" \/ b.k = "NaN" THEN NaN
    ELSE IF NumLeq(a, b) THEN a ELSE b

MathMax(a, b) ==
    IF a.k = "NaN" \/ b.k = "NaN" THEN NaN
    ELSE IF NumLeq(a, b) THEN b ELSE a

\* Math.max(-50, Math.min(50, a)) without the lower limit
ClampNoLower(a) == MathMin(Fin(ClampHi), a)

\* Math.max(-50, Math.min(50, a))
Clamp(a) == MathMax(Fin(ClampLo), MathMin(Fin(ClampHi), a))

\* Option values of the join request: undefined or a string s
OptUndef == [k |-> "undefined", s |-> ""]
OptStr(str) == [k |-> "string", s |-> str]

\* (v ?? d).toString()
OrDefault(v, d) == IF v.k = "undefined" THEN d ELSE v.s

\* str.slice(0, n)
Slice0(str, n) == SubSeq(str, 1, IF Len(str) < n THEN Len(str) ELSE n)

(***************************************************************************)
(* Inputs                                                                  *)
(***************************************************************************)
LongName == "Bartholomew-Maximilian-Featherstonehaugh"

Identities ==
    { [name |-> OptUndef, avatarKey |-> OptUndef],
      [name |-> OptStr(LongName), avatarKey |-> OptStr("a2")] }

EnvRequests ==
    { OptUndef, OptStr(""), OptStr("office"), OptStr("whitespace"),
      OptStr("garden") }

JoinOptions ==
    { [name |-> i.name, avatarKey |-> i.avatarKey, envKey |-> e] :
        i \in Identities, e \in EnvRequests }

\* move messages: a missing field is undefined
FiniteMoves ==
    { [x |-> Fin(50001), y |-> Fin(-60000), z |-> Fin(7000), ry |-> Fin(60000)],
      [x |-> NotNum, y |-> Undef, z |-> Fin(-50001), ry |-> Fin(1571)],
      [x |-> Undef, y |-> Undef, z |-> Undef, ry |-> NotNum] }

NonFiniteMoves ==
    { [x |-> NaN, y |-> PosInf, z |-> NegInf, ry |-> NaN] }

MoveMsgs == FiniteMoves \cup NonFiniteMoves

(***************************************************************************)
(* State after construction: onCreate, new MyRoomState()                   *)
(***************************************************************************)
ServerInit ==
    /\ players = <<>>
    /\ envKey = DefaultEnv
    /\ clients = {}
    /\ reconnections = {}
    /\ broadcasts = <<>>
    /\ envAssigned = FALSE
    /\ last = [op |-> "create", sid |-> 0, arg |-> 0]

MyId == "me"
RigIds == {"me", "peer"}

\* the client once the effect has built the rendering context: nothing
\* mounted, no rig, no call at an await
ClientIdle ==
    /\ colliderBoxes = <<>>
    /\ pendingLoads = << >>
    /\ envMounted = "none"
    /\ colliderObj = FALSE
    /\ requested = "none"
    /\ scene = [envs |-> 0, cols |-> 0, roots |-> [id \in RigIds |-> 0]]
    /\ three = TRUE
    /\ rigs = << >>
    /\ pendingRigs = [id \in RigIds |-> 0]
    /\ present = {}
    /\ echoes = 0
    /\ inFrame = FALSE
    /\ sent = << >>
    /\ did = [op |-> "none", arg |-> 0, res |-> FALSE]

Init == ServerInit /\ ClientIdle

(***************************************************************************)
(* onJoin                                                                  *)
(***************************************************************************)
\* the environment a join adopts, taken verbatim from the request
JoinEnvUnrestricted(size, cur, o) ==
    IF size = 0 THEN OrDefault(o.envKey, "") ELSE cur

\* the environment a join adopts, whatever the size of the room
JoinEnvAlways(size, cur, o) ==
    IF OrDefault(o.envKey, "") = "whitespace" THEN "whitespace" ELSE "office"

\* envKey after onJoin in a room of `size` players whose envKey is `cur`
JoinEnv(size, cur, o) ==
    IF size = 0
    THEN IF OrDefault(o.envKey, "") = "whitespace" THEN "whitespace" ELSE "office"
    ELSE cur

\* new PlayerState() with the schema's defaults for the position
NewPlayerNoSpawn(s, o) ==
    [ id |-> s,
      name |-> Slice0(OrDefault(o.name, "Guest"), NameMax),
      avatarKey |-> OrDefault(o.avatarKey, "a1"),
      x |-> Fin(0), y |-> Fin(0), z |-> Fin(0), ry |-> Fin(0) ]

\* the PlayerState onJoin creates
NewPlayer(s, o) ==
    [ id |-> s,
      name |-> Slice0(OrDefault(o.name, "Guest"), NameMax),
      avatarKey |-> OrDefault(o.avatarKey, "a1"),
      x |-> Fin(SpawnX), y |-> Fin(SpawnY), z |-> Fin(SpawnZ), ry |-> Fin(MathPI) ]

\* players.set(key, p)
MapSet(m, key, p) == [t \in DOMAIN m \cup {key} |-> IF t = key THEN p ELSE m[t]]

\* players.delete(key)
MapDelete(m, key) == [t \in DOMAIN m \ {key} |-> m[t]]

Join(s, o) ==
    /\ s \notin clients
    /\ s \notin reconnections
    /\ Cardinality(clients \cup reconnections) < maxClients
    /\ clients' = clients \cup {s}
    /\ envKey' = JoinEnv(Cardinality(DOMAIN players), envKey, o)
    /\ envAssigned' = (envAssigned \/ Cardinality(DOMAIN players) = 0)
    /\ players' = MapSet(players, s, NewPlayer(s, o))
    /\ last' = [op |-> "join", sid |-> s, arg |-> o]
    /\ broadcasts' = <<>>
    /\ UNCHANGED reconnections
    /\ UNCHANGED clientVars

(***************************************************************************)
(* onMessage("move")                                                       *)
(***************************************************************************)
\* a handler that rejects the whole message when one field is not numeric
MoveApplyAllOrNothing(p, msg) ==
    IF \A f \in {"x", "y", "z", "ry"} : TypeofNumber(msg[f])
    THEN [p EXCEPT !.x = Clamp(msg.x), !.y = Clamp(msg.y),
                   !.z = Clamp(msg.z), !.ry = msg.ry]
    ELSE p

\* a handler whose clamp has no lower limit
MoveApplyNoLower(p, msg) ==
    [p EXCEPT
        !.x = IF TypeofNumber(msg.x) THEN ClampNoLower(msg.x) ELSE @,
        !.y = IF TypeofNumber(msg.y) THEN ClampNoLower(msg.y) ELSE @,
        !.z = IF TypeofNumber(msg.z) THEN ClampNoLower(msg.z) ELSE @,
        !.ry = IF TypeofNumber(msg.ry) THEN msg.ry ELSE @]

\* lines 19-22: the four guarded assignments
MoveApply(p, msg) ==
    [p EXCEPT
        !.x = IF TypeofNumber(msg.x) THEN Clamp(msg.x) ELSE @,
        !.y = IF TypeofNumber(msg.y) THEN Clamp(msg.y) ELSE @,
        !.z = IF TypeofNumber(msg.z) THEN Clamp(msg.z) ELSE @,
        !.ry = IF TypeofNumber(msg.ry) THEN msg.ry ELSE @]

\* a handler that writes the sender's position to every PlayerState
MovePlayersAll(m, s, msg) ==
    IF s \in DOMAIN m
    THEN [t \in DOMAIN m |-> MoveApply(m[t], msg)]
    ELSE m

\* the players map after the handler ran for session s: lines 16-22
MovePlayers(m, s, msg) ==
    IF s \in DOMAIN m
    THEN [m EXCEPT ![s] = MoveApply(@, msg)]
    ELSE m

\* A message reaches the handler from a connected client; one from a session
\* without a PlayerState takes the handler's early return.
Move(s, msg) ==
    /\ s \in clients \/ s \notin reconnections
    /\ players' = MovePlayers(players, s, msg)
    /\ last' = [op |-> "move", sid |-> s, arg |-> msg]
    /\ broadcasts' = <<>>
    /\ UNCHANGED <<envKey, clients, reconnections, envAssigned>>
    /\ UNCHANGED clientVars

(***************************************************************************)
(* onMessage("chat") and onMessage("emote")                                *)
(***************************************************************************)
\* n copies of the string c
RECURSIVE Rep(_, _)
Rep(c, n) ==
    IF n = 0 THEN ""
    ELSE IF n % 2 = 0 THEN LET h == Rep(c, n \div 2) IN h \o h
    ELSE c \o Rep(c, n - 1)

IsSpace(c) == c \in {" ", "\t", "\n", "\r"}

\* the index of the first character of str that is no white space, 0 if none
FirstInk(str) ==
    LET n == Len(str)
        ink(i) == ~IsSpace(SubSeq(str, i, i))
    IN  IF \A i \in 1 .. n : ~ink(i) THEN 0
        ELSE CHOOSE i \in 1 .. n : ink(i) /\ \A j \in 1 .. i - 1 : ~ink(j)

\* the index of the last character of str that is no white space, 0 if none
LastInk(str) ==
    LET n == Len(str)
        ink(i) == ~IsSpace(SubSeq(str, i, i))
    IN  IF \A i \in 1 .. n : ~ink(i) THEN 0
        ELSE n + 1 - (CHOOSE k \in 1 .. n :
                         ink(n + 1 - k) /\ \A j \in 1 .. k - 1 : ~ink(n + 1 - j))

\* str.trim()
Trim(str) ==
    IF FirstInk(str) = 0 THEN "" ELSE SubSeq(str, FirstInk(str), LastInk(str))

ChatTexts ==
    { OptUndef, OptStr(""), OptStr("   "), OptStr(" \t\n "), OptStr(Rep(" ", 600)),
      OptStr("hello"), OptStr("  hi there  "),
      OptStr(Rep("x", 500)), OptStr(Rep("x", 501)), OptStr(Rep("x", 600)),
      OptStr("  " \o Rep("y", 499) \o "   "),
      OptStr(" " \o Rep("z", 600)) }

EmoteNames == { OptUndef, OptStr(""), OptStr(" "), OptStr("wave"), OptStr("dance") }

\* Date.now()
Times == {1, 2}

\* p?.name ?? "Guest"
SenderName(m, s) == IF s \in DOMAIN m THEN m[s].name ELSE "Guest"

\* a chat handler that does not trim the text
ChatBroadcastsNoTrim(m, to, s, text, now) ==
    LET str == OrDefault(text, "") IN
    IF str = "" THEN <<>>
    ELSE << [type |-> "chat", to |-> to, id |-> s, name |-> SenderName(m, s),
             text |-> Slice0(str, ChatMax), ts |-> now] >>

\* a chat handler that does not truncate the text
ChatBroadcastsNoSlice(m, to, s, text, now) ==
    LET str == Trim(OrDefault(text, "")) IN
    IF str = "" THEN <<>>
    ELSE << [type |-> "chat", to |-> to, id |-> s, name |-> SenderName(m, s),
             text |-> str, ts |-> now] >>

\* what the chat handler broadcasts: lines 26-37
ChatBroadcasts(m, to, s, text, now) ==
    LET str == Trim(OrDefault(text, "")) IN
    IF str = "" THEN <<>>
    ELSE << [type |-> "chat", to |-> to, id |-> s, name |-> SenderName(m, s),
             text |-> Slice0(str, ChatMax), ts |-> now] >>

Chat(s, text, now) ==
    /\ s \in clients
    /\ broadcasts' = ChatBroadcasts(players, clients, s, text, now)
    /\ last' = [op |-> "chat", sid |-> s, arg |-> text]
    /\ UNCHANGED <<players, envKey, clients, reconnections, envAssigned>>
    /\ UNCHANGED clientVars

\* an emote handler that leaves the sender out
EmoteBroadcastsOthers(to, s, emote) ==
    LET str == OrDefault(emote, "") IN
    IF str = "" THEN <<>>
    ELSE << [type |-> "emote", to |-> to \ {s}, id |-> s, emote |-> str] >>

\* what the emote handler broadcasts: lines 41-43
EmoteBroadcasts(to, s, emote) ==
    LET str == OrDefault(emote, "") IN
    IF str = "" THEN <<>>
    ELSE << [type |-> "emote", to |-> to, id |-> s, emote |-> str] >>

Emote(s, emote) ==
    /\ s \in clients
    /\ broadcasts' = EmoteBroadcasts(clients, s, emote)
    /\ last' = [op |-> "emote", sid |-> s, arg |-> emote]
    /\ UNCHANGED <<players, envKey, clients, reconnections, envAssigned>>
    /\ UNCHANGED clientVars

(***************************************************************************)
(* onLeave: allowReconnection, then resume or removal                      *)
(***************************************************************************)
\* an onLeave that removes the PlayerState at once
LeavePlayersNoGrace(m, s) == MapDelete(m, s)

\* the players map when onLeave starts to await allowReconnection
LeavePlayers(m, s) == m

\* the connection closes; onLeave arms the reconnection window
Leave(s, consented) ==
    /\ s \in clients
    /\ clients' = clients \ {s}
    /\ reconnections' = reconnections \cup {s}
    /\ players' = LeavePlayers(players, s)
    /\ last' = [op |-> "leave", sid |-> s, arg |-> consented]
    /\ broadcasts' = <<>>
    /\ UNCHANGED <<envKey, envAssigned>>
    /\ UNCHANGED clientVars

\* the pending windows after session s resumed: its timer is cleared
ResumeTimers(r, s) == r \ {s}

\* the same session resumes inside the window: the await returns
Reconnect(s) ==
    /\ s \in reconnections
    /\ s \notin clients
    /\ clients' = clients \cup {s}
    /\ reconnections' = ResumeTimers(reconnections, s)
    /\ last' = [op |-> "reconnect", sid |-> s, arg |-> 0]
    /\ broadcasts' = <<>>
    /\ UNCHANGED <<players, envKey, envAssigned>>
    /\ UNCHANGED clientVars

\* a catch block that keeps the PlayerState
ExpirePlayersKeep(m, s) == m

\* the catch block: players.delete(sessionId)
ExpirePlayers(m, s) == MapDelete(m, s)

\* the window ends without a resume: the await throws
Expire(s) ==
    /\ s \in reconnections
    /\ reconnections' = reconnections \ {s}
    /\ players' = ExpirePlayers(players, s)
    /\ last' = [op |-> "expire", sid |-> s, arg |-> 0]
    /\ broadcasts' = <<>>
    /\ UNCHANGED <<envKey, clients, envAssigned>>
    /\ UNCHANGED clientVars

(***************************************************************************)
(* Client: the collision index (loadEnvironment's build, isBlocked)        *)
(***************************************************************************)
Vec(x, y, z) == [x |-> x, y |-> y, z |-> z]
Box(lo, hi) == [min |-> lo, max |-> hi]
Axes == {"x", "y", "z"}

\* Number.isFinite(a)
NumberIsFinite(a) == a.k = "finite"

\* a < b
NumLt(a, b) == a.k # "NaN" /\ b.k # "NaN" /\ ~NumLeq(b, a)

\* a + b
Plus(a, b) ==
    IF a.k = "NaN" \/ b.k = "NaN" THEN NaN
    ELSE IF a.k = "finite" /\ b.k = "finite" THEN Fin(a.v + b.v)
    ELSE IF a.k = "finite" THEN b
    ELSE IF b.k = "finite" THEN a
    ELSE IF a.k = b.k THEN a ELSE NaN

Sign(a) ==
    IF a.k = "+Infinity" THEN 1
    ELSE IF a.k = "-Infinity" THEN -1
    ELSE IF a.v > 0 THEN 1 ELSE IF a.v < 0 THEN -1 ELSE 0

\* a * b (both in thousandths)
Mul(a, b) ==
    IF a.k = "NaN" \/ b.k = "NaN" THEN NaN
    ELSE IF a.k = "finite" /\ b.k = "finite" THEN Fin((a.v * b.v) \div 1000)
    ELSE IF Sign(a) * Sign(b) = 0 THEN NaN
    ELSE IF Sign(a) * Sign(b) > 0 THEN PosInf ELSE NegInf

\* Math.min and Math.max over a set of numbers
MinOf(S) ==
    IF \E a \in S : a.k = "NaN" THEN NaN
    ELSE CHOOSE a \in S : \A b \in S : NumLeq(a, b)

MaxOf(S) ==
    IF \E a \in S : a.k = "NaN" THEN NaN
    ELSE CHOOSE a \in S : \A b \in S : NumLeq(b, a)

\* Box3.isEmpty
IsEmpty(b) == \E a \in Axes : NumLt(b.max[a], b.min[a])

\* Vector3.applyMatrix4 for a matrix that scales each axis and translates:
\* the products with the zero entries of the matrix are NaN for a
\* coordinate that is not finite
ApplyMatrix4Point(p, m) ==
    LET term(a, b) == Mul(IF a = b THEN m.scale[a] ELSE Fin(0), p[b])
    IN  [a \in Axes |->
            Plus(Plus(Plus(term(a, "x"), term(a, "y")), term(a, "z")), m.pos[a])]

\* Box3.applyMatrix4: an empty box is returned as it is, any other becomes
\* the box around the images of its eight corners
ApplyMatrix4(b, m) ==
    IF IsEmpty(b) THEN b
    ELSE LET corners == { Vec(x, y, z) : x \in {b.min.x, b.max.x},
                                         y \in {b.min.y, b.max.y},
                                         z \in {b.min.z, b.max.z} }
             images == { ApplyMatrix4Point(c, m) : c \in corners }
         IN  Box([a \in Axes |-> MinOf({PosInf} \cup { q[a] : q \in images })],
                 [a \in Axes |-> MaxOf({NegInf} \cup { q[a] : q \in images })])

\* the world box of every proxy mesh: geometry.boundingBox under matrixWorld
WorldBoxes(meshes) ==
    [i \in 1 .. Len(meshes) |-> ApplyMatrix4(meshes[i].box, meshes[i].matrix)]

KeepsBox(b) == NumberIsFinite(b.min.x)

\* const shrink = 0.05
Shrink == 50

\* the four updates of tempBox after the push: min.x and min.z grow, max.x
\* and max.z fall by the margin, y is left alone
ShrinkXZ(b) ==
    Box([b.min EXCEPT !.x = Plus(@, Fin(Shrink)), !.z = Plus(@, Fin(Shrink))],
        [b.max EXCEPT !.x = Plus(@, Fin(0 - Shrink)), !.z = Plus(@, Fin(0 - Shrink))])

\* one visit of the traversal for a mesh whose world box is kept: what is
\* pushed is the clone taken before tempBox is shrunk
Visit(world) == [pushed |-> world, tempBox |-> ShrinkXZ(world)]

\* the boxes the build stores: tempBox is overwritten by the copy for the
\* next mesh, so only the pushed clones survive the traversal
BuildBoxes(meshes) ==
    LET kept == SelectSeq(WorldBoxes(meshes), KeepsBox)
    IN  [i \in 1 .. Len(kept) |-> Visit(kept[i]).pushed]

\* a box that is not expanded
ExpandByNothing(b, r) == b

\* Box3.expandByScalar
ExpandByScalar(b, r) ==
    Box([a \in Axes |-> Plus(b.min[a], Fin(-r))],
        [a \in Axes |-> Plus(b.max[a], Fin(r))])

\* Box3.containsPoint (no coordinate is NaN in this model)
ContainsPoint(b, p) ==
    \A a \in Axes : NumLeq(b.min[a], p[a]) /\ NumLeq(p[a], b.max[a])

\* the point isBlocked tests
Probe(nextPos) == Vec(nextPos.x, Fin(PLAYER_GROUND_Y + ProbeOffset), nextPos.z)

\* an isBlocked that tests the point at its own height
IsBlockedAtOwnHeight(boxes, nextPos) ==
    \E i \in 1 .. Len(boxes) :
        ContainsPoint(ExpandByScalar(boxes[i], Radius), nextPos)

IsBlockedIn(boxes, nextPos) ==
    \E i \in 1 .. Len(boxes) :
        ContainsPoint(ExpandByScalar(boxes[i], Radius), Probe(nextPos))

\* proxy meshes of a collider file: the local bounding box and matrixWorld
IdentityMatrix == [scale |-> Vec(Fin(1000), Fin(1000), Fin(1000)),
                   pos |-> Vec(Fin(0), Fin(0), Fin(0))]
Mesh(lo, hi, m) == [box |-> Box(lo, hi), matrix |-> m]
FinVec(x, y, z) == Vec(Fin(x), Fin(y), Fin(z))

\* a block standing on the floor
Block == Mesh(FinVec(0, 0, 0), FinVec(1000, 3000, 1000), IdentityMatrix)

ProxyMeshes ==
    { Block,
      \* a cube mirrored, doubled and moved
      Mesh(FinVec(-500, -500, -500), FinVec(500, 500, 500),
           [scale |-> FinVec(-2000, 2000, 2000), pos |-> FinVec(-1800, 1000, 0)]),
      \* a floor plane, without thickness
      Mesh(FinVec(-9000, 0, -9000), FinVec(9000, 0, 9000), IdentityMatrix),
      \* a geometry without vertices: the empty box
      Mesh(Vec(PosInf, PosInf, PosInf), Vec(NegInf, NegInf, NegInf), IdentityMatrix),
      \* a geometry with a NaN height
      Mesh(Vec(Fin(0), NaN, Fin(0)), Vec(Fin(1000), NaN, Fin(1000)), IdentityMatrix),
      \* a block under an environment without geometry: env.position.y is
      \* -Infinity, and the collider root copies it
      Mesh(FinVec(0, 0, 0), FinVec(1000, 3000, 1000),
           [scale |-> FinVec(1000, 1000, 1000), pos |-> Vec(Fin(0), NegInf, Fin(0))]) }

RECURSIVE SeqsUpTo(_, _)
SeqsUpTo(S, n) ==
    IF n = 0 THEN { <<>> }
    ELSE SeqsUpTo(S, n - 1) \cup
         { Append(q, e) : q \in { r \in SeqsUpTo(S, n - 1) : Len(r) = n - 1 }, e \in S }

ColliderFiles == SeqsUpTo(ProxyMeshes, MaxMeshes)

QueryPoints ==
    { FinVec(x, y, z) : x \in {-400, 1400, 1500},
                        y \in {500, 5500},
                        z \in {-400, 500} }

\* the proxy meshes of each environment's collider file
CollidersOf(key) == IF key = "office" THEN << Block >> ELSE << >>

RemoveAt(q, i) == SubSeq(q, 1, i - 1) \o SubSeq(q, i + 1, Len(q))

\* a TypeError raised by threeRef.current.scene on a null context
Throws(where) == [op |-> "TypeError", arg |-> where, res |-> TRUE]

\* loadEnvironment up to its first await: the mounted environment and the
\* collider object the refs name are taken off the scene, the stored boxes
\* are dropped.  (A cached environment skips the wait for the first await;
\* that is the case in which LoadEnvironmentEnv follows at once.)
LoadEnvironmentBegin(key) ==
    /\ ~inFrame
    /\ three
    /\ Len(pendingLoads) < MaxLoads
    /\ scene.envs + Len(pendingLoads) < MaxNodes
    /\ scene.cols + Len(pendingLoads) < MaxNodes
    /\ scene' = [scene EXCEPT
                    !.envs = IF envMounted # "none" THEN @ - 1 ELSE @,
                    !.cols = IF colliderObj THEN @ - 1 ELSE @]
    /\ envMounted' = "none"
    /\ colliderObj' = FALSE
    /\ colliderBoxes' = <<>>
    /\ pendingLoads' = Append(pendingLoads, [key |-> key, stage |-> "env"])
    /\ requested' = key
    /\ did' = [op |-> "clear", arg |-> key, res |-> FALSE]
    /\ sent' = << >>
    /\ UNCHANGED <<rigVars, three, echoes, inFrame>>
    /\ UNCHANGED serverVars

\* a resumption that gives up when a later call has asked for another key
LoadEnvironmentEnvLatest(i) ==
    /\ ~inFrame
    /\ i \in 1 .. Len(pendingLoads)
    /\ pendingLoads[i].stage = "env"
    /\ three
    /\ IF pendingLoads[i].key = requested
       THEN /\ scene' = [scene EXCEPT !.envs = @ + 1]
            /\ envMounted' = pendingLoads[i].key
            /\ pendingLoads' = [pendingLoads EXCEPT ![i].stage = "colliders"]
       ELSE /\ pendingLoads' = RemoveAt(pendingLoads, i)
            /\ UNCHANGED <<scene, envMounted>>
    /\ did' = [op |-> "envLoaded", arg |-> pendingLoads[i].key, res |-> FALSE]
    /\ sent' = << >>
    /\ UNCHANGED <<colliderBoxes, colliderObj, requested>>
    /\ UNCHANGED <<rigVars, three, echoes, inFrame>>
    /\ UNCHANGED serverVars

\* loadEnvironment after the environment file has loaded: the clone is
\* attached and recorded as mounted, whatever is mounted by then
LoadEnvironmentEnv(i) ==
    /\ ~inFrame
    /\ i \in 1 .. Len(pendingLoads)
    /\ pendingLoads[i].stage = "env"
    /\ IF three
       THEN /\ scene' = [scene EXCEPT !.envs = @ + 1]
            /\ envMounted' = pendingLoads[i].key
            /\ pendingLoads' = [pendingLoads EXCEPT ![i].stage = "colliders"]
            /\ did' = [op |-> "envLoaded", arg |-> pendingLoads[i].key, res |-> FALSE]
       ELSE /\ pendingLoads' = RemoveAt(pendingLoads, i)
            /\ did' = Throws("envLoaded")
            /\ UNCHANGED <<scene, envMounted>>
    /\ sent' = << >>
    /\ UNCHANGED <<colliderBoxes, colliderObj, requested>>
    /\ UNCHANGED <<rigVars, three, echoes, inFrame>>
    /\ UNCHANGED serverVars

\* loadEnvironment after the collider file has loaded: the collider scene
\* is attached and recorded, the boxes are built and stored
LoadEnvironmentColliders(i, meshes) ==
    /\ ~inFrame
    /\ i \in 1 .. Len(pendingLoads)
    /\ pendingLoads[i].stage = "colliders"
    /\ pendingLoads' = RemoveAt(pendingLoads, i)
    /\ IF three
       THEN /\ scene' = [scene EXCEPT !.cols = @ + 1]
            /\ colliderObj' = TRUE
            /\ colliderBoxes' = BuildBoxes(meshes)
            /\ did' = [op |-> "build", arg |-> meshes, res |-> FALSE,
                       key |-> pendingLoads[i].key]
       ELSE /\ did' = Throws("build")
            /\ UNCHANGED <<scene, colliderObj, colliderBoxes>>
    /\ sent' = << >>
    /\ UNCHANGED <<envMounted, requested>>
    /\ UNCHANGED <<rigVars, three, echoes, inFrame>>
    /\ UNCHANGED serverVars

\* the cleanup of the effect that built the rendering context
Teardown ==
    /\ ~inFrame
    /\ three
    /\ three' = FALSE
    /\ did' = [op |-> "teardown", arg |-> 0, res |-> FALSE]
    /\ sent' = << >>
    /\ UNCHANGED <<loadVars, rigVars, scene, echoes, inFrame>>
    /\ UNCHANGED serverVars

\* a call of isBlocked
IsBlocked(nextPos) ==
    /\ did' = [op |-> "isBlocked", arg |-> nextPos,
               res |-> IsBlockedIn(colliderBoxes, nextPos)]
    /\ sent' = << >>
    /\ UNCHANGED <<loadVars, rigVars, scene, three, echoes, inFrame>>
    /\ UNCHANGED serverVars

(***************************************************************************)
(* Client: player rigs (ensureRig, setBaseAnim, playWave, animate)         *)
(***************************************************************************)
\* the rig ensureRig creates: the root at the origin, the idle clip playing
NewRig ==
    [ current |-> "idle", emoteActive |-> FALSE,
      finishedListeners |-> 0,   \* onFinished handlers registered on the mixer
      wavePlaying |-> FALSE,     \* the wave action runs towards its end
      pos |-> FinVec(0, 0, 0),
      ry |-> Fin(0) ]            \* root.rotation.y

\* a setBaseAnim that does not look at the emote flag
SetBaseAnimUnguarded(rig, next) ==
    IF rig.current = next THEN rig ELSE [rig EXCEPT !.current = next]

SetBaseAnim(rig, next) ==
    IF rig.emoteActive THEN rig
    ELSE IF rig.current = next THEN rig
    ELSE [rig EXCEPT !.current = next]

\* a playWave that restarts a wave that is active
PlayWaveAlways(rig) ==
    [rig EXCEPT !.emoteActive = TRUE, !.wavePlaying = TRUE,
                !.finishedListeners = @ + 1]

PlayWave(rig) ==
    IF rig.emoteActive THEN rig
    ELSE [rig EXCEPT !.emoteActive = TRUE, !.wavePlaying = TRUE,
                     !.finishedListeners = @ + 1]

\* a completion that stops the clip and tells no one
OnFinishedUnheard(rig) == [rig EXCEPT !.wavePlaying = FALSE]

\* the mixer's "finished" event for the wave action: every registered
\* onFinished runs and removes itself
OnFinished(rig) ==
    IF rig.finishedListeners = 0 THEN [rig EXCEPT !.wavePlaying = FALSE]
    ELSE [rig EXCEPT !.wavePlaying = FALSE, !.emoteActive = FALSE,
                     !.current = "idle", !.finishedListeners = 0]

\* the positions and yaws a PlayerState can hold when the client is told of it
ServerPositions ==
    { [x |-> Fin(SpawnX), y |-> Fin(SpawnY), z |-> Fin(SpawnZ), ry |-> Fin(MathPI)],
      [x |-> Fin(SpawnX), y |-> NaN, z |-> Fin(SpawnZ), ry |-> Fin(MathPI)],
      [x |-> Fin(0), y |-> Fin(ClampLo), z |-> Fin(0), ry |-> Fin(0)] }

\* move.normalize().multiplyScalar(speed * dt) for the key and yaw
\* combinations that walk along an axis; the zero vector stands for no input
Displacements ==
    { [x |-> 0, z |-> 0], [x |-> 1000, z |-> 0], [x |-> -1000, z |-> 0],
      [x |-> 0, z |-> 1000], [x |-> 0, z |-> -1000] }

\* the part of the floor the walks of the model stay on
Reach == MaxWalk * 1000
OnFloor(p) == /\ -Reach <= p.x.v /\ p.x.v <= Reach
              /\ -Reach <= p.z.v /\ p.z.v <= Reach

\* Math.atan2(move.x, move.z) along the axes
FaceYaw(move) ==
    IF move.x > 0 THEN Fin(1571)
    ELSE IF move.x < 0 THEN Fin(-1571)
    ELSE IF move.z < 0 THEN Fin(MathPI) ELSE Fin(0)

Message(type, x, y, z, ry, emote) ==
    [type |-> type, x |-> x, y |-> y, z |-> z, ry |-> ry, emote |-> emote]
MoveMessage(pos, ry) == Message("move", pos.x, Fin(PLAYER_GROUND_Y), pos.z, ry, "")
EmoteMessage(emote) == Message("emote", Undef, Undef, Undef, Undef, emote)

Proposed(me, move) ==
    Vec(Plus(me.pos.x, Fin(move.x)), Fin(PLAYER_GROUND_Y), Plus(me.pos.z, Fin(move.z)))

\* an animate that leaves the height of the local rig alone
LocalFrameNoPin(me, boxes, move) ==
    LET proposed == Vec(Plus(me.pos.x, Fin(move.x)), me.pos.y, Plus(me.pos.z, Fin(move.z)))
        moved == move # [x |-> 0, z |-> 0] /\ ~IsBlockedIn(boxes, proposed)
    IN  IF moved
        THEN [rig |-> SetBaseAnim([me EXCEPT !.pos = proposed,
                                             !.ry = FaceYaw(move)], "walk"),
              sent |-> << Message("move", proposed.x, proposed.y, proposed.z,
                                  FaceYaw(move), "") >>,
              moved |-> TRUE]
        ELSE [rig |-> SetBaseAnim(me, "idle"), sent |-> << >>, moved |-> FALSE]

\* an animate that takes half the step when the whole step is blocked
LocalFrameShort(me, boxes, move) ==
    LET pinned == [me EXCEPT !.pos.y = Fin(PLAYER_GROUND_Y)]
        proposed == Proposed(pinned, move)
        short == Proposed(pinned, [x |-> move.x \div 2, z |-> move.z \div 2])
        target == IF IsBlockedIn(boxes, proposed) THEN short ELSE proposed
        moved == /\ move # [x |-> 0, z |-> 0]
                 /\ ~IsBlockedIn(boxes, target)
    IN  IF moved
        THEN [rig |-> SetBaseAnim([pinned EXCEPT !.pos = target,
                                                 !.ry = FaceYaw(move)], "walk"),
              sent |-> << MoveMessage(target, FaceYaw(move)) >>,
              moved |-> TRUE]
        ELSE [rig |-> SetBaseAnim(pinned, "idle"), sent |-> << >>, moved |-> FALSE]

\* animate, the local rig: pin the height, walk unless blocked, pick the
\* base animation, report the move
LocalFrame(me, boxes, move) ==
    LET pinned == [me EXCEPT !.pos.y = Fin(PLAYER_GROUND_Y)]
        proposed == Proposed(pinned, move)
        moved == move # [x |-> 0, z |-> 0] /\ ~IsBlockedIn(boxes, proposed)
    IN  IF moved
        THEN [rig |-> SetBaseAnim([pinned EXCEPT !.pos = proposed,
                                                 !.ry = FaceYaw(move)], "walk"),
              sent |-> << MoveMessage(proposed, FaceYaw(move)) >>,
              moved |-> TRUE]
        ELSE [rig |-> SetBaseAnim(pinned, "idle"), sent |-> << >>, moved |-> FALSE]

\* ensureRig up to its await: nothing to do without a context, the
\* registered rig is returned if there is one, else the call waits for the
\* avatar and the clips
EnsureRigCall(id) ==
    IF three /\ id \notin DOMAIN rigs
    THEN [pendingRigs EXCEPT ![id] = @ + 1]
    ELSE pendingRigs

\* a call of ensureRig from join or from the catch-up of a state change
EnsureRigBegin(id) ==
    /\ ~inFrame
    /\ three
    /\ id \notin DOMAIN rigs
    /\ pendingRigs[id] < MaxCalls
    /\ scene.roots[id] + pendingRigs[id] < MaxNodes
    /\ pendingRigs' = EnsureRigCall(id)
    /\ sent' = << >>
    /\ did' = [op |-> "ensureRigCall", arg |-> id, res |-> FALSE]
    /\ UNCHANGED <<rigs, present>>
    /\ UNCHANGED <<loadVars, scene, three, echoes, inFrame>>
    /\ UNCHANGED serverVars

\* ensureRig, once the avatar and the clips have loaded: the new root is
\* attached and the rig registered under the id, over any rig there
EnsureRig(id) ==
    /\ ~inFrame
    /\ pendingRigs[id] > 0
    /\ pendingRigs' = [pendingRigs EXCEPT ![id] = @ - 1]
    /\ IF three
       THEN /\ scene' = [scene EXCEPT !.roots[id] = @ + 1]
            /\ rigs' = MapSet(rigs, id, NewRig)
            /\ did' = [op |-> "ensureRig", arg |-> id, res |-> FALSE]
       ELSE /\ did' = Throws("ensureRig")
            /\ UNCHANGED <<scene, rigs>>
    /\ sent' = << >>
    /\ UNCHANGED present
    /\ UNCHANGED <<loadVars, three, echoes, inFrame>>
    /\ UNCHANGED serverVars

\* the players.onAdd notification up to the await of its ensureRig
PlayersOnAdd(id) ==
    /\ ~inFrame
    /\ id \notin present
    /\ pendingRigs[id] < MaxCalls
    /\ scene.roots[id] + pendingRigs[id] < MaxNodes
    /\ present' = present \cup {id}
    /\ pendingRigs' = EnsureRigCall(id)
    /\ sent' = << >>
    /\ did' = [op |-> "playersOnAdd", arg |-> id, res |-> FALSE]
    /\ UNCHANGED rigs
    /\ UNCHANGED <<loadVars, scene, three, echoes, inFrame>>
    /\ UNCHANGED serverVars

\* the catch-up of a state change for a player of the map, up to the
\* await of its ensureRig
CatchUpCall(id) ==
    /\ ~inFrame
    /\ id \in present
    /\ pendingRigs[id] < MaxCalls
    /\ scene.roots[id] + pendingRigs[id] < MaxNodes
    /\ pendingRigs' = EnsureRigCall(id)
    /\ sent' = << >>
    /\ did' = [op |-> "catchUpCall", arg |-> id, res |-> FALSE]
    /\ UNCHANGED <<rigs, present>>
    /\ UNCHANGED <<loadVars, scene, three, echoes, inFrame>>
    /\ UNCHANGED serverVars

\* removeRig, from players.onRemove: the registered rig's root leaves the
\* scene and the registry; without a context or a registered rig nothing
\* happens
RemoveRig(id) ==
    /\ ~inFrame
    /\ id \in present \/ id \in DOMAIN rigs
    /\ present' = present \ {id}
    /\ IF three /\ id \in DOMAIN rigs
       THEN /\ scene' = [scene EXCEPT !.roots[id] = @ - 1]
            /\ rigs' = MapDelete(rigs, id)
       ELSE UNCHANGED <<scene, rigs>>
    /\ sent' = << >>
    /\ did' = [op |-> "removeRig", arg |-> id, res |-> FALSE]
    /\ UNCHANGED pendingRigs
    /\ UNCHANGED <<loadVars, three, echoes, inFrame>>
    /\ UNCHANGED serverVars

\* players.onAdd, after its ensureRig: the root is put where the state says
OnAdd(id, p) ==
    /\ ~inFrame
    /\ three
    /\ id \in DOMAIN rigs
    /\ rigs' = [rigs EXCEPT ![id].pos = Vec(p.x, p.y, p.z), ![id].ry = p.ry]
    /\ sent' = << >>
    /\ did' = [op |-> "onAdd", arg |-> id, res |-> FALSE]
    /\ UNCHANGED <<pendingRigs, present>>
    /\ UNCHANGED <<loadVars, scene, three, echoes, inFrame>>
    /\ UNCHANGED serverVars

\* onStateChange's catch-up, after its ensureRig: the local root is put at
\* the state's x and z on the ground; a remote rig only gets a new target
CatchUp(id, p) ==
    /\ ~inFrame
    /\ three
    /\ id \in DOMAIN rigs
    /\ rigs' = IF id = MyId
               THEN [rigs EXCEPT ![id].pos = Vec(p.x, Fin(PLAYER_GROUND_Y), p.z)]
               ELSE rigs
    /\ sent' = << >>
    /\ did' = [op |-> "catchUp", arg |-> id, res |-> FALSE]
    /\ UNCHANGED <<pendingRigs, present>>
    /\ UNCHANGED <<loadVars, scene, three, echoes, inFrame>>
    /\ UNCHANGED serverVars

\* wave(): the button, as far as the client goes
WavePress ==
    /\ ~inFrame
    /\ three
    /\ MyId \in DOMAIN rigs
    /\ rigs' = [rigs EXCEPT ![MyId] = PlayWave(@)]
    /\ sent' = << EmoteMessage("wave") >>
    /\ did' = [op |-> "wave", arg |-> MyId, res |-> rigs[MyId].emoteActive]
    /\ UNCHANGED <<pendingRigs, present>>
    /\ UNCHANGED <<loadVars, scene, three, inFrame>>
    /\ UNCHANGED serverVars

\* wave() when the room's answer is left out of the picture
Wave == WavePress /\ UNCHANGED echoes

\* wave() and the room's emote handler, which broadcasts to every client,
\* the sender among them
WaveEchoed ==
    /\ echoes < MaxEchoes
    /\ WavePress
    /\ echoes' = echoes + 1

\* r.onMessage("emote")
OnEmote(id, emote) ==
    /\ ~inFrame
    /\ rigs' = IF three /\ id \in DOMAIN rigs /\ emote = "wave"
               THEN [rigs EXCEPT ![id] = PlayWave(@)]
               ELSE rigs
    /\ sent' = << >>
    /\ did' = [op |-> "onEmote", arg |-> id,
               res |-> id \in DOMAIN rigs /\ emote = "wave" /\ rigs[id].emoteActive]
    /\ UNCHANGED <<pendingRigs, present>>
    /\ UNCHANGED <<loadVars, scene, three, echoes, inFrame>>
    /\ UNCHANGED serverVars

\* r.onMessage("emote") for the rebroadcast of our own wave
OnEcho ==
    /\ ~inFrame
    /\ echoes > 0
    /\ echoes' = echoes - 1
    /\ rigs' = IF three /\ MyId \in DOMAIN rigs
               THEN [rigs EXCEPT ![MyId] = PlayWave(@)]
               ELSE rigs
    /\ sent' = << >>
    /\ did' = [op |-> "onEcho", arg |-> MyId,
               res |-> MyId \in DOMAIN rigs /\ rigs[MyId].emoteActive]
    /\ UNCHANGED <<pendingRigs, present>>
    /\ UNCHANGED <<loadVars, scene, three, inFrame>>
    /\ UNCHANGED serverVars

\* animate, first half: mixer.update(dt) of every rig; the wave clips that
\* reach their end in this frame (done) emit "finished"
AnimateMixers(done) ==
    /\ ~inFrame
    /\ three
    /\ done \subseteq { id \in DOMAIN rigs : rigs[id].wavePlaying }
    /\ rigs' = [id \in DOMAIN rigs |->
                   IF id \in done THEN OnFinished(rigs[id]) ELSE rigs[id]]
    /\ inFrame' = TRUE
    /\ sent' = << >>
    /\ did' = [op |-> "mixers", arg |-> done, res |-> FALSE]
    /\ UNCHANGED <<pendingRigs, present>>
    /\ UNCHANGED <<loadVars, scene, three, echoes>>
    /\ UNCHANGED serverVars

\* animate, second half: the local rig
AnimateLocal(move) ==
    /\ inFrame
    /\ inFrame' = FALSE
    /\ IF MyId \in DOMAIN rigs
       THEN LET f == LocalFrame(rigs[MyId], colliderBoxes, move)
            IN  /\ OnFloor(Proposed(rigs[MyId], move))
                /\ rigs' = [rigs EXCEPT ![MyId] = f.rig]
                /\ sent' = f.sent
                /\ did' = [op |-> "frame", arg |-> rigs[MyId].pos.y, res |-> f.moved,
                           move |-> move]
       ELSE /\ rigs' = rigs
            /\ sent' = << >>
            /\ did' = [op |-> "frame", arg |-> Undef, res |-> FALSE, move |-> move]
    /\ UNCHANGED <<pendingRigs, present>>
    /\ UNCHANGED <<loadVars, scene, three, echoes>>
    /\ UNCHANGED serverVars

(***************************************************************************)
(* Specifications                                                          *)
(***************************************************************************)
Next ==
    \/ \E s \in Sessions, o \in JoinOptions : Join(s, o)
    \/ \E s \in Sessions, msg \in MoveMsgs : Move(s, msg)
    \/ \E s \in Sessions, consented \in BOOLEAN : Leave(s, consented)
    \/ \E s \in Sessions : Reconnect(s)
    \/ \E s \in Sessions : Expire(s)

Spec == Init /\ [][Next]_vars

\* the room when every move message carries only finite numbers
NextFinite ==
    \/ \E s \in Sessions, o \in JoinOptions : Join(s, o)
    \/ \E s \in Sessions, msg \in FiniteMoves : Move(s, msg)
    \/ \E s \in Sessions, consented \in BOOLEAN : Leave(s, consented)
    \/ \E s \in Sessions : Reconnect(s)
    \/ \E s \in Sessions : Expire(s)

SpecFinite == Init /\ [][NextFinite]_vars

\* the room with its chat and emote traffic
NextMsg ==
    \/ \E s \in Sessions, o \in JoinOptions : Join(s, o)
    \/ \E s \in Sessions, text \in ChatTexts, now \in Times : Chat(s, text, now)
    \/ \E s \in Sessions, emote \in EmoteNames : Emote(s, emote)
    \/ \E s \in Sessions, consented \in BOOLEAN : Leave(s, consented)
    \/ \E s \in Sessions : Reconnect(s)
    \/ \E s \in Sessions : Expire(s)

SpecMsg == Init /\ [][NextMsg]_vars

\* the room under moves of every kind, each client joining without options
NoOptions == [name |-> OptUndef, avatarKey |-> OptUndef, envKey |-> OptUndef]

NextMove ==
    \/ \E s \in Sessions : Join(s, NoOptions)
    \/ \E s \in Sessions, msg \in MoveMsgs : Move(s, msg)
    \/ \E s \in Sessions, consented \in BOOLEAN : Leave(s, consented)
    \/ \E s \in Sessions : Reconnect(s)
    \/ \E s \in Sessions : Expire(s)

SpecMove == Init /\ [][NextMove]_vars

\* the client's collision index: environment loads and isBlocked calls
NextCollide ==
    \/ pendingLoads = << >> /\ LoadEnvironmentBegin(DefaultEnv)
    \/ LoadEnvironmentEnv(1)
    \/ \E meshes \in ColliderFiles : LoadEnvironmentColliders(1, meshes)
    \/ \E nextPos \in QueryPoints : IsBlocked(nextPos)

SpecCollide == Init /\ [][NextCollide]_vars

\* the client: rigs, frames, waves and one collider box
NextClient ==
    \/ \E id \in RigIds : pendingRigs[id] = 0 /\ EnsureRigBegin(id)
    \/ \E id \in RigIds : EnsureRig(id)
    \/ \E id \in RigIds : RemoveRig(id)
    \/ \E id \in RigIds, p \in ServerPositions : OnAdd(id, p)
    \/ \E id \in RigIds, p \in ServerPositions : CatchUp(id, p)
    \/ Wave
    \/ \E id \in RigIds, emote \in {"wave", "dance"} : OnEmote(id, emote)
    \/ \E done \in SUBSET RigIds : AnimateMixers(done)
    \/ \E move \in Displacements : AnimateLocal(move)
    \/ pendingLoads = << >> /\ LoadEnvironmentBegin(DefaultEnv)
    \/ LoadEnvironmentEnv(1)
    \/ LoadEnvironmentColliders(1, CollidersOf(DefaultEnv))

SpecClient == Init /\ [][NextClient]_vars

\* the rigs alone
NextRig ==
    \/ \E id \in RigIds : pendingRigs[id] = 0 /\ EnsureRigBegin(id)
    \/ \E id \in RigIds : EnsureRig(id)
    \/ \E id \in RigIds : RemoveRig(id)
    \/ \E id \in RigIds, p \in ServerPositions : OnAdd(id, p)
    \/ Wave
    \/ \E id \in RigIds, emote \in {"wave", "dance"} : OnEmote(id, emote)
    \/ \E done \in SUBSET RigIds : AnimateMixers(done)
    \/ AnimateLocal([x |-> 0, z |-> 0])

SpecRig == Init /\ [][NextRig]_vars

\* animate runs to its end; a wave clip has an end, and the frames that
\* advance it keep coming: the frame in which a playing clip ends happens
FairSpecRig ==
    /\ SpecRig
    /\ WF_vars(AnimateLocal([x |-> 0, z |-> 0]))
    /\ \A id \in RigIds :
          SF_vars(\E done \in SUBSET RigIds : id \in done /\ AnimateMixers(done))

\* the environment loads of a client whose room state names now one
\* environment, now the other, and the teardown of the rendering context;
\* join and onStateChange call loadEnvironment when the mounted key differs
NextScene ==
    \/ \E key \in KnownEnvs : envMounted # key /\ LoadEnvironmentBegin(key)
    \/ \E i \in 1 .. Len(pendingLoads) : LoadEnvironmentEnv(i)
    \/ \E i \in 1 .. Len(pendingLoads) :
          LoadEnvironmentColliders(i, CollidersOf(pendingLoads[i].key))
    \/ Teardown

SpecScene == Init /\ [][NextScene]_vars

\* the rigs of a client as players come and go: join creates the local rig
\* and then binds the handlers of the players map
NextPlayers ==
    \/ present = {} /\ pendingRigs[MyId] = 0 /\ EnsureRigBegin(MyId)
    \/ \E id \in RigIds : MyId \in DOMAIN rigs /\ PlayersOnAdd(id)
    \/ \E id \in RigIds : MyId \in DOMAIN rigs /\ CatchUpCall(id)
    \/ \E id \in RigIds \ {MyId} : id \in present /\ RemoveRig(id)
    \/ \E id \in RigIds : EnsureRig(id)
    \/ \E id \in RigIds, p \in ServerPositions : id \in present /\ OnAdd(id, p)
    \/ Teardown

SpecPlayers == Init /\ [][NextPlayers]_vars

\* the local wave and its way through the room and back
NextEcho ==
    \/ \E id \in RigIds : pendingRigs[id] = 0 /\ EnsureRigBegin(id)
    \/ \E id \in RigIds : EnsureRig(id)
    \/ WaveEchoed
    \/ OnEcho
    \/ \E id \in RigIds \ {MyId} : OnEmote(id, "wave")
    \/ \E done \in SUBSET RigIds : AnimateMixers(done)
    \/ AnimateLocal([x |-> 0, z |-> 0])

SpecEcho == Init /\ [][NextEcho]_vars

\* the timer armed by allowReconnection fires unless the session resumes
FairSpec == SpecFinite /\ \A s \in Sessions : WF_vars(Expire(s))

(***************************************************************************)
(* Properties                                                              *)
(***************************************************************************)
Connected(s) == s \in clients
InGrace(s) == s \in reconnections /\ s \notin clients
Coords == {"x", "y", "z"}
Fields == {"x", "y", "z", "ry"}

\* C1: once the first join has assigned envKey, no later step of the room
\* (join, disconnect, reconnection, removal) gives it a different value.
C1_EnvKeyAssignedOnce == [][envAssigned => envKey' = envKey]_vars

\* C2: a join processed while the players map holds at least one PlayerState
\* leaves envKey unchanged, whatever environment it requests.
C2_JoinNonEmptyKeepsEnv ==
    [][(last'.op = "join" /\ DOMAIN players # {}) => envKey' = envKey]_vars

C2_Witness ==
    /\ last.op = "join"
    /\ Cardinality(DOMAIN players) >= 2
    /\ last.arg.envKey = OptStr("office")
    /\ envKey = "whitespace"

\* C3: envKey is always a known key; a join into an empty room sets it to the
\* requested key when that key is known and to "office" for any other, empty
\* or missing request.
C3_EnvKeyKnown ==
    /\ envKey \in KnownEnvs
    /\ (last.op = "join" /\ DOMAIN players = {last.sid}) =>
          envKey = IF last.arg.envKey.k = "string" /\ last.arg.envKey.s \in KnownEnvs
                   THEN last.arg.envKey.s
                   ELSE "office"

C3_Witness ==
    /\ last.op = "join"
    /\ DOMAIN players = {last.sid}
    /\ last.arg.envKey = OptStr("whitespace")
    /\ envKey = "whitespace"

\* C4: when every numeric field of every move message is finite, x, y and z
\* of every PlayerState lie in [-50, 50]; a value below -50 is stored as -50
\* and one above 50 as 50.
C4_FiniteMovesInRange ==
    /\ \A s \in DOMAIN players : \A f \in Coords :
          /\ players[s][f].k = "finite"
          /\ -50000 <= players[s][f].v
          /\ players[s][f].v <= 50000
    /\ (last.op = "move" /\ last.sid \in DOMAIN players) =>
          \A f \in Coords :
             last.arg[f].k = "finite" =>
                /\ last.arg[f].v < -50000 => players[last.sid][f] = Fin(-50000)
                /\ last.arg[f].v > 50000 => players[last.sid][f] = Fin(50000)
                /\ (last.arg[f].v >= -50000 /\ last.arg[f].v <= 50000) =>
                      players[last.sid][f] = last.arg[f]

C4_Witness ==
    /\ last.op = "move"
    /\ last.sid \in DOMAIN players
    /\ last.arg.x = Fin(50001) /\ players[last.sid].x = Fin(50000)
    /\ last.arg.y = Fin(-60000) /\ players[last.sid].y = Fin(-50000)
    /\ last.arg.z = Fin(7000) /\ players[last.sid].z = Fin(7000)

\* C5: a move message is applied field by field: a field that is missing or
\* not a number keeps its stored value, and every field that is a number is
\* applied (clamped for x, y, z; as sent for ry) in the same message.
C5_MovePerField ==
    [][(last'.op = "move" /\ last'.sid \in DOMAIN players) =>
          /\ last'.sid \in DOMAIN players'
          /\ \A f \in Fields :
                players'[last'.sid][f] =
                   IF ~TypeofNumber(last'.arg[f]) THEN players[last'.sid][f]
                   ELSE IF f = "ry" THEN last'.arg[f]
                   ELSE Clamp(last'.arg[f])]_vars

C5_Witness ==
    /\ last.op = "move"
    /\ last.sid \in DOMAIN players
    /\ last.arg.x.k = "string" /\ players[last.sid].x = Fin(SpawnX)
    /\ last.arg.y.k = "undefined" /\ players[last.sid].y = Fin(SpawnY)
    /\ last.arg.z = Fin(-50001) /\ players[last.sid].z = Fin(-50000)
    /\ last.arg.ry = Fin(1571) /\ players[last.sid].ry = Fin(1571)

\* C6: a move field x, y or z that is NaN, +Infinity or -Infinity leaves the
\* stored coordinate at its prior value.
C6_NonFiniteKeepsPrior ==
    [][(last'.op = "move" /\ last'.sid \in DOMAIN players) =>
          \A f \in Coords :
             last'.arg[f].k \in {"NaN", "+Infinity", "-Infinity"} =>
                /\ last'.sid \in DOMAIN players'
                /\ players'[last'.sid][f] = players[last'.sid][f]]_vars

\* C7: a session that disconnects and resumes inside its grace window keeps
\* its PlayerState, with every field as it was at the disconnect, through
\* the window and the resume, and the window of that disconnect does not
\* delete it afterwards.
C7_ResumeKeepsPlayer ==
    [][\A s \in Sessions :
          /\ (s \in clients /\ s \in DOMAIN players /\ s \notin clients') =>
                (s \in DOMAIN players' /\ players'[s] = players[s])
          /\ (InGrace(s) /\ (s \in reconnections' \/ s \in clients')) =>
                (s \in DOMAIN players /\ s \in DOMAIN players'
                    /\ players'[s] = players[s])
          /\ (s \in clients /\ s \in DOMAIN players) => s \in DOMAIN players'
      ]_vars

C7_Witness ==
    /\ last.op = "reconnect"
    /\ last.sid \in clients
    /\ last.sid \in DOMAIN players
    /\ players[last.sid].x = Fin(50000)
    /\ players[last.sid].name = "Bartholomew-Maximilian-Featherst"

\* C8: a session that disconnects and does not resume eventually has its
\* PlayerState deleted; a PlayerState is deleted only by the expiry of its
\* own session's grace window, never while its session is connected and
\* never by another session's leave.
C8_RemovalOnlyByOwnExpiry ==
    /\ \A s \in Sessions : InGrace(s) ~> (Connected(s) \/ s \notin DOMAIN players)
    /\ [][\A s \in Sessions :
             (s \in DOMAIN players /\ s \notin DOMAIN players') =>
                (last'.op = "expire" /\ last'.sid = s /\ InGrace(s))]_vars

C8_Witness ==
    /\ last.op = "expire"
    /\ last.sid \notin DOMAIN players
    /\ last.sid \notin clients
    /\ DOMAIN players # {}

\* C9: every join inserts a PlayerState under the joining session id, with
\* that id and the spawn x = 0, y = 1, z = -2, ry = pi, whatever positions
\* other PlayerStates hold.
C9_JoinSpawn ==
    last.op = "join" =>
       /\ last.sid \in DOMAIN players
       /\ players[last.sid].id = last.sid
       /\ players[last.sid].x = Fin(0)
       /\ players[last.sid].y = Fin(1000)
       /\ players[last.sid].z = Fin(-2000)
       /\ players[last.sid].ry = Fin(3142)

C9_Witness ==
    /\ last.op = "join"
    /\ players[last.sid].x = Fin(0)
    /\ \E t \in DOMAIN players \ {last.sid} : players[t].x = Fin(50000)

\* C10: the keys of the players map are exactly the sessions that are
\* connected or inside their grace window, and each PlayerState is stored
\* under its own session id.
C10_PlayersAreSessions ==
    /\ DOMAIN players = {s \in Sessions : Connected(s) \/ InGrace(s)}
    /\ \A s \in DOMAIN players : players[s].id = s

C10_Witness ==
    /\ \E s \in Sessions : InGrace(s) /\ s \in DOMAIN players
    /\ \E s \in Sessions : s \notin DOMAIN players /\ last.op = "expire" /\ last.sid = s

\* a text that is missing, empty or made of white space only
BlankText(text) ==
    \/ text.k = "undefined"
    \/ \A i \in 1 .. Len(text.s) : IsSpace(SubSeq(text.s, i, i))

\* C11: a chat message whose text is missing, empty or white space only
\* produces no broadcast and changes no room state.
C11_BlankChatDropped ==
    [][(last'.op = "chat" /\ BlankText(last'.arg)) =>
          /\ broadcasts' = <<>>
          /\ UNCHANGED <<players, envKey, clients, reconnections>>]_vars

C11_Witness ==
    /\ last.op = "chat"
    /\ last.arg.k = "string"
    /\ Len(last.arg.s) = 600
    /\ BlankText(last.arg)
    /\ broadcasts = <<>>

\* C12: every chat message of more than 500 characters is broadcast with a
\* text of exactly 500 characters, and no broadcast text is longer than 500
\* characters.
C12_LongChatExactly500 ==
    last.op = "chat" =>
       /\ \A i \in 1 .. Len(broadcasts) : Len(broadcasts[i].text) <= 500
       /\ (last.arg.k = "string" /\ Len(last.arg.s) > 500) =>
             (Len(broadcasts) = 1 /\ Len(broadcasts[1].text) = 500)

\* C12 (amended): every chat message whose text, with the white space at its
\* two ends removed, has more than 500 characters is broadcast with exactly
\* the first 500 characters of that trimmed text; no broadcast text is longer
\* than 500 characters.
C12_TrimmedLongChatExactly500 ==
    last.op = "chat" =>
       /\ \A i \in 1 .. Len(broadcasts) : Len(broadcasts[i].text) <= 500
       /\ (last.arg.k = "string" /\ LastInk(last.arg.s) - FirstInk(last.arg.s) >= 500) =>
             /\ Len(broadcasts) = 1
             /\ Len(broadcasts[1].text) = 500
             /\ broadcasts[1].text =
                   SubSeq(last.arg.s, FirstInk(last.arg.s), FirstInk(last.arg.s) + 499)

C12_Witness ==
    /\ last.op = "chat"
    /\ last.arg = OptStr(" " \o Rep("z", 600))
    /\ Len(broadcasts) = 1
    /\ broadcasts[1].text = Rep("z", 500)

\* C13: an emote message with a missing or empty emote produces no
\* broadcast; one with a non-empty emote is broadcast exactly once, as the
\* sender's session id and the emote, to every client of the room, the
\* sender included; the room state does not change.
C13_EmoteRebroadcast ==
    [][last'.op = "emote" =>
          /\ UNCHANGED <<players, envKey, clients, reconnections>>
          /\ IF last'.arg.k = "undefined" \/ last'.arg.s = ""
             THEN broadcasts' = <<>>
             ELSE /\ Len(broadcasts') = 1
                  /\ broadcasts'[1].type = "emote"
                  /\ broadcasts'[1].id = last'.sid
                  /\ broadcasts'[1].emote = last'.arg.s
                  /\ broadcasts'[1].to = clients
                  /\ last'.sid \in broadcasts'[1].to]_vars

C13_Witness ==
    /\ last.op = "emote"
    /\ last.arg = OptStr("wave")
    /\ Cardinality(clients) = 2
    /\ Len(broadcasts) = 1
    /\ broadcasts[1].to = clients
    /\ broadcasts[1].id = last.sid

\* C20: move messages are last-write-wins per field: a move step stores
\* each field the message carries as a number (clamped for x, y, z; as sent
\* for ry) and keeps the others; it changes no other session's PlayerState
\* nor envKey, and nothing when its session has no PlayerState; a PlayerState
\* changes only by a move of its own session; moves of different sessions
\* commute.
C20_MovesLastWriteWins ==
    /\ [](\A s1 \in Sessions, s2 \in Sessions, m1 \in MoveMsgs, m2 \in MoveMsgs :
             s1 # s2 =>
                MovePlayers(MovePlayers(players, s1, m1), s2, m2)
                   = MovePlayers(MovePlayers(players, s2, m2), s1, m1))
    /\ [][/\ last'.op = "move" =>
             /\ envKey' = envKey
             /\ DOMAIN players' = DOMAIN players
             /\ \A t \in DOMAIN players \ {last'.sid} : players'[t] = players[t]
             /\ last'.sid \in DOMAIN players =>
                   \A f \in Fields :
                      players'[last'.sid][f] =
                         IF ~TypeofNumber(last'.arg[f]) THEN players[last'.sid][f]
                         ELSE IF f = "ry" THEN last'.arg[f]
                         ELSE MathMax(Fin(-50000), MathMin(Fin(50000), last'.arg[f]))
          /\ \A s \in DOMAIN players \cap DOMAIN players' :
                players'[s] # players[s] => (last'.op = "move" /\ last'.sid = s)
        ]_vars

C20_Witness ==
    /\ last.op = "move"
    /\ last.sid \in DOMAIN players
    /\ last.arg.ry = Fin(1571)
    /\ players[last.sid].ry = Fin(1571)
    /\ players[last.sid].x = Fin(50000)
    /\ players[last.sid].z = Fin(-50000)
    /\ \E t \in DOMAIN players \ {last.sid} : players[t].x = Fin(0)

FiniteBox(b) == \A a \in Axes : b.min[a].k = "finite" /\ b.max[a].k = "finite"

\* the probe (x, 0.5 + 1.0, z) lies within 0.45 of the box on every axis
InsideExpanded(b, x, z) ==
    LET q == Vec(x, Fin(1500), z)
    IN  \A a \in Axes : /\ NumLeq(Plus(b.min[a], Fin(-450)), q[a])
                        /\ NumLeq(q[a], Plus(b.max[a], Fin(450)))

\* C14: isBlocked(point) is true iff the probe (point.x, ground height + 1.0,
\* point.z) lies inside at least one box of the list expanded by 0.45 on
\* every side; the result does not depend on point.y; with an empty list it
\* is false.
C14_IsBlockedExpandedBoxes ==
    did.op = "isBlocked" =>
       /\ did.res = (\E i \in 1 .. Len(colliderBoxes) :
                        InsideExpanded(colliderBoxes[i], did.arg.x, did.arg.z))
       /\ \A q \in QueryPoints :
             (q.x = did.arg.x /\ q.z = did.arg.z) =>
                IsBlockedIn(colliderBoxes, q) = did.res
       /\ colliderBoxes = <<>> => ~did.res

C14_Witness ==
    /\ did.op = "isBlocked"
    /\ did.res
    /\ did.arg = FinVec(1400, 5500, -400)
    /\ Len(colliderBoxes) = 2
    /\ ~InsideExpanded(colliderBoxes[1], did.arg.x, did.arg.z)
    /\ InsideExpanded(colliderBoxes[2], did.arg.x, did.arg.z)

\* Box3.intersectsSphere: the point of the box nearest to the centre is
\* within the radius
SphereIntersectsBox(b, c, r) ==
    LET near(a) == IF c[a].v < b.min[a].v THEN b.min[a].v
                   ELSE IF c[a].v > b.max[a].v THEN b.max[a].v ELSE c[a].v
        d(a) == c[a].v - near(a)
    IN  d("x") * d("x") + d("y") * d("y") + d("z") * d("z") <= r * r

\* the axes on which a point lies outside the extent of a box
OutsideAxes(b, c) == { a \in Axes : c[a].v < b.min[a].v \/ c[a].v > b.max[a].v }

\* C15: for every box and every probe the expanded-box test of isBlocked
\* gives the same answer as testing a sphere of the entity radius centred at
\* the probe against the unexpanded box.
C15_ExpandedBoxIsSphereTest ==
    did.op = "isBlocked" =>
       \A i \in 1 .. Len(colliderBoxes) :
          FiniteBox(colliderBoxes[i]) =>
             (ContainsPoint(ExpandByScalar(colliderBoxes[i], Radius), Probe(did.arg))
                <=> SphereIntersectsBox(colliderBoxes[i], Probe(did.arg), 450))

\* C15 (amended): for every box of finite extents and every probe, the
\* expanded-box test of isBlocked is true whenever the sphere of the entity
\* radius centred at the probe intersects the unexpanded box, and the two
\* tests agree when the probe lies outside the extent of the box on at most
\* one axis.
C15_ExpandedBoxCoversSphereTest ==
    did.op = "isBlocked" =>
       \A i \in 1 .. Len(colliderBoxes) :
          FiniteBox(colliderBoxes[i]) =>
             LET expanded == ContainsPoint(ExpandByScalar(colliderBoxes[i], Radius),
                                           Probe(did.arg))
                 sphere == SphereIntersectsBox(colliderBoxes[i], Probe(did.arg), 450)
             IN  /\ sphere => expanded
                 /\ Cardinality(OutsideAxes(colliderBoxes[i], Probe(did.arg))) <= 1
                       => (expanded <=> sphere)

C15_Witness ==
    /\ did.op = "isBlocked"
    /\ \E i \in 1 .. Len(colliderBoxes), j \in 1 .. Len(colliderBoxes) :
          /\ FiniteBox(colliderBoxes[i]) /\ FiniteBox(colliderBoxes[j])
          \* beside a face: both tests say blocked
          /\ OutsideAxes(colliderBoxes[i], Probe(did.arg)) = {"x"}
          /\ SphereIntersectsBox(colliderBoxes[i], Probe(did.arg), 450)
          /\ ContainsPoint(ExpandByScalar(colliderBoxes[i], Radius), Probe(did.arg))
          \* beyond an edge: the expanded box holds the probe, the sphere misses
          /\ Cardinality(OutsideAxes(colliderBoxes[j], Probe(did.arg))) = 2
          /\ ~SphereIntersectsBox(colliderBoxes[j], Probe(did.arg), 450)
          /\ ContainsPoint(ExpandByScalar(colliderBoxes[j], Radius), Probe(did.arg))

\* C16: after every build every stored box has finite min and max on the
\* three axes and min < max on each; a proxy mesh whose world box is not
\* finite on some axis or is degenerate contributes no box.
C16_BoxesFiniteNonDegenerate ==
    LET good(b) == FiniteBox(b) /\ \A a \in Axes : b.min[a].v < b.max[a].v
    IN  /\ \A i \in 1 .. Len(colliderBoxes) : good(colliderBoxes[i])
        /\ did.op = "build" =>
              colliderBoxes = SelectSeq(WorldBoxes(did.arg), good)

\* C17: a wave trigger on a rig whose wave is active has no effect: the
\* rig's animation state, emoteActive and the registered completion handlers
\* are as before; a rig has one completion handler while it waves and none
\* otherwise, so one completion notification ends the wave, once.
C17_SecondWaveNoEffect ==
    /\ [](\A id \in DOMAIN rigs :
             rigs[id].finishedListeners = IF rigs[id].emoteActive THEN 1 ELSE 0)
    /\ [][/\ (/\ did'.op \in {"wave", "onEmote"}
              /\ did'.arg \in DOMAIN rigs
              /\ rigs[did'.arg].emoteActive) => rigs' = rigs
          /\ did'.op = "mixers" =>
                \A id \in did'.arg :
                   rigs[id].emoteActive =>
                      /\ ~rigs'[id].emoteActive
                      /\ rigs'[id].finishedListeners = 0
                      /\ ~rigs'[id].wavePlaying
         ]_vars

C17_Witness ==
    /\ did.op = "onEmote"
    /\ did.res
    /\ did.arg \in DOMAIN rigs
    /\ rigs[did.arg].emoteActive
    /\ rigs[did.arg].wavePlaying
    /\ rigs[did.arg].finishedListeners = 1

\* C18: a rig that enters wave and whose wave clip is reported finished
\* leaves wave with emoteActive false and current idle; wave is entered only
\* by a wave trigger for that rig and left only by the completion
\* notification.
C18_WaveEndsByCompletion ==
    /\ \A id \in RigIds :
          (id \in DOMAIN rigs /\ rigs[id].emoteActive)
             ~> (\/ id \notin DOMAIN rigs
                 \/ ~rigs[id].emoteActive /\ rigs[id].current = "idle")
    /\ [][\A id \in DOMAIN rigs \cap DOMAIN rigs' :
             /\ (~rigs[id].emoteActive /\ rigs'[id].emoteActive) =>
                   (did'.op \in {"wave", "onEmote"} /\ did'.arg = id)
             /\ (rigs[id].emoteActive /\ ~rigs'[id].emoteActive) =>
                   /\ did'.op = "mixers"
                   /\ id \in did'.arg
                   /\ rigs'[id].current = "idle"
         ]_vars

C18_Witness ==
    /\ did.op = "mixers"
    /\ "peer" \in did.arg
    /\ ~rigs["peer"].emoteActive
    /\ rigs["peer"].current = "idle"
    /\ rigs["peer"].finishedListeners = 0

\* C19: at the end of every frame in which the local rig exists its height
\* is the ground height 0.5, whatever it was before the frame; every move
\* message the client sends carries y = 0.5.
C19_LocalHeightPinned ==
    /\ (did.op = "frame" /\ MyId \in DOMAIN rigs) => rigs[MyId].pos.y = Fin(500)
    /\ \A i \in 1 .. Len(sent) : sent[i].type = "move" => sent[i].y = Fin(500)

C19_Witness ==
    /\ did.op = "frame"
    /\ did.arg = NaN
    /\ did.res
    /\ Len(sent) = 1
    /\ sent[1].type = "move"
    /\ sent[1].y = Fin(500)
    /\ rigs[MyId].pos.y = Fin(500)

\* C21: every box stored by a build is the proxy mesh's world box with its
\* horizontal extents shrunk by the margin: min.x and min.z are the world
\* box's plus 0.05, max.x and max.z are the world box's minus 0.05, and the
\* vertical extents are the world box's
C21_StoredBoxesShrunk ==
    did.op = "build" =>
        LET kept == SelectSeq(WorldBoxes(did.arg), KeepsBox)
        IN  /\ Len(colliderBoxes) = Len(kept)
            /\ \A i \in 1 .. Len(kept) :
                   /\ colliderBoxes[i].min.x = Plus(kept[i].min.x, Fin(Shrink))
                   /\ colliderBoxes[i].min.z = Plus(kept[i].min.z, Fin(Shrink))
                   /\ colliderBoxes[i].max.x = Plus(kept[i].max.x, Fin(0 - Shrink))
                   /\ colliderBoxes[i].max.z = Plus(kept[i].max.z, Fin(0 - Shrink))
                   /\ colliderBoxes[i].min.y = kept[i].min.y
                   /\ colliderBoxes[i].max.y = kept[i].max.y

\* C22: a frame whose proposed position is blocked leaves the local rig's
\* x, z and facing as they were and sends nothing; a frame whose proposed
\* position is not blocked puts the rig at exactly the proposed x and z and
\* sends exactly one move message carrying them
C22_BlockedMoveRejectedWhole ==
    [][(did'.op = "frame" /\ MyId \in DOMAIN rigs /\ did'.move # [x |-> 0, z |-> 0]) =>
          LET me == rigs[MyId]
              after == rigs'[MyId]
              px == Plus(me.pos.x, Fin(did'.move.x))
              pz == Plus(me.pos.z, Fin(did'.move.z))
              blocked == \E i \in 1 .. Len(colliderBoxes) :
                            InsideExpanded(colliderBoxes[i], px, pz)
          IN  IF blocked
              THEN /\ after.pos.x = me.pos.x
                   /\ after.pos.z = me.pos.z
                   /\ after.ry = me.ry
                   /\ sent' = << >>
                   /\ ~did'.res
              ELSE /\ after.pos.x = px
                   /\ after.pos.z = pz
                   /\ Len(sent') = 1
                   /\ sent'[1].type = "move"
                   /\ sent'[1].x = px
                   /\ sent'[1].z = pz
                   /\ did'.res]_vars

\* a frame that proposed a step into the box: the rig still stands in front
\* of it, facing as the state said
C22_Witness ==
    /\ did.op = "frame"
    /\ MyId \in DOMAIN rigs
    /\ did.move = [x |-> 0, z |-> 1000]
    /\ ~did.res
    /\ sent = << >>
    /\ colliderBoxes # << >>
    /\ rigs[MyId].pos = FinVec(0, 500, -1000)
    /\ rigs[MyId].ry = Fin(MathPI)

\* C23: while a rig's wave is active no frame changes its base animation
\* state, whether or not the entity moves; when no wave is active the local
\* rig's base state at the end of a frame is walk iff a move was accepted in
\* that frame
C23_WaveFreezesBaseAnim ==
    [][/\ (did'.op \in {"mixers", "frame"}) =>
             \A id \in DOMAIN rigs :
                (rigs[id].emoteActive /\ rigs'[id].emoteActive) =>
                   rigs'[id].current = rigs[id].current
       /\ (did'.op = "frame" /\ MyId \in DOMAIN rigs /\ ~rigs[MyId].emoteActive) =>
             (rigs'[MyId].current = "walk" <=> did'.res)]_vars

C23_Witness ==
    /\ did.op = "frame"
    /\ did.res
    /\ MyId \in DOMAIN rigs
    /\ rigs[MyId].emoteActive
    /\ rigs[MyId].current = "idle"

\* C24: the completions of an environment load are not guarded against a
\* newer request: whenever a load's environment file arrives in a live
\* context its key is recorded as mounted and its clone attached, and
\* whenever its collider file arrives the boxes built from it are stored,
\* whichever key was requested last; so a load of A that completes after
\* the load of a newer key B leaves A mounted, with A's boxes
C24_CompletionsUnguarded ==
    [][/\ did'.op = "envLoaded" =>
             /\ envMounted' = did'.arg
             /\ scene'.envs = scene.envs + 1
       /\ did'.op = "build" =>
             /\ colliderBoxes' = BuildBoxes(CollidersOf(did'.key))
             /\ scene'.cols = scene.cols + 1]_vars

\* every load has completed, whitespace was requested last, the office is
\* mounted and its boxes are the stored ones
C24_Witness ==
    /\ pendingLoads = << >>
    /\ three
    /\ requested = "whitespace"
    /\ envMounted = "office"
    /\ did.op = "build"
    /\ did.key = "office"
    /\ colliderBoxes = BuildBoxes(CollidersOf("office"))
    /\ colliderBoxes # BuildBoxes(CollidersOf("whitespace"))

\* C25: in every reachable state at most one environment object and at most
\* one collider object are attached to the scene, and once no load is
\* pending the stored boxes are the ones built for the environment recorded
\* as mounted
C25_OneEnvironmentAttached ==
    /\ scene.envs <= 1
    /\ scene.cols <= 1
    /\ (pendingLoads = << >> /\ envMounted # "none") =>
          colliderBoxes = BuildBoxes(CollidersOf(envMounted))

\* C27: a completion that resumes after the rendering context was torn down
\* finds that out by a check: it returns without raising an error and
\* leaves the scene, the rig registry and the stored boxes as they were
C27_CompletionsCheckContext ==
    [][~three => /\ did'.op # "TypeError"
                 /\ scene' = scene
                 /\ rigs' = rigs
                 /\ colliderBoxes' = colliderBoxes]_vars

\* C26: once a player has been removed from the players map and every
\* pending rig creation has completed, the registry holds no rig for that
\* player and no visual node of that player remains in the scene
C26_RemovedPlayerHasNoRig ==
    \A id \in RigIds \ {MyId} :
       (three /\ id \notin present /\ pendingRigs[id] = 0) =>
          /\ id \notin DOMAIN rigs
          /\ scene.roots[id] = 0

\* C28: for every player id at most one rig is attached to the scene: every
\* visual node of the id in the scene is the root of the rig registered
\* under the id, and there is no node without a registered rig
C28_OneRigPerPlayer ==
    \A id \in RigIds :
       scene.roots[id] = (IF id \in DOMAIN rigs THEN 1 ELSE 0)

\* C29: the server's echo of the local wave never starts a playback on the
\* sender's rig: whenever it arrives, before or after the clip has
\* completed, the sender's rig is left as it was
C29_EchoStartsNoWave ==
    [][did'.op = "onEcho" => rigs' = rigs]_vars

\* C30: after the initial snapshot the local rig's x and z are changed only
\* by a frame that accepted a predicted move, never by a state-change
\* notification; and a frame that starts at an unblocked position ends at
\* an unblocked position
C30_LocalPositionOnlyPredicted ==
    [][(MyId \in DOMAIN rigs /\ MyId \in DOMAIN rigs') =>
          LET before == rigs[MyId].pos
              after == rigs'[MyId].pos
              blockedAt(q) == \E i \in 1 .. Len(colliderBoxes) :
                                 InsideExpanded(colliderBoxes[i], q.x, q.z)
          IN  /\ (after.x # before.x \/ after.z # before.z) =>
                    \/ did'.op = "frame" /\ did'.res
                    \/ did'.op = "onAdd"
              /\ (did'.op = "frame" /\ ~blockedAt(before)) => ~blockedAt(after)]_vars

====
